---- MODULE Spec2Model ----
(***************************************************************************)
(* The balance-and-order ledger of the store bot: the sqlite tables of     *)
(* src/database.py (users, transactions, orders, balance_history,          *)
(* admin_logs) and the handlers of src/handlers.py, src/recharge.py,       *)
(* src/purchase.py, src/admin.py and src/main.py that write them.          *)
(*                                                                         *)
(* Scheduling.  main.py:136 builds the application with                    *)
(* concurrent_updates(True): every inbound update is handled by its own    *)
(* task.  Every Database method opens its own connection and runs one      *)
(* BEGIN ... COMMIT/ROLLBACK, so one Database call is one atomic step.  A  *)
(* handler that awaits several Database calls is a task whose position     *)
(* (task[p].pc) is the call it awaits next; other tasks may run between    *)
(* two calls of the same handler.  A handler that makes a single writing   *)
(* call is a single action.  The switch is placed at each "await db. ..."  *)
(* of the handler: the bodies of the Database coroutines are synchronous   *)
(* sqlite3 calls, so whether a task switch happens there depends on the    *)
(* awaited call yielding to the event loop.                                *)
(*                                                                         *)
(* Audit tables.  balance_history and admin_logs are append only and no    *)
(* handler reads them back; the model keeps the rows the latest step       *)
(* appended (appended) instead of the whole tables.                        *)
(*                                                                         *)
(* Amounts.  balance, amount and price are REAL columns fed with decimal   *)
(* strings; the model counts them in whole currency units (integers).      *)
(* Foreign keys are enforced only on the connection of init_db (the        *)
(* PRAGMA of database.py:101 is per connection), so no write below is      *)
(* refused or cascaded by a foreign key.                                   *)
(***************************************************************************)
EXTENDS Integers, Sequences, FiniteSets, TLC

\* ------------------------------------------------------------------ bounds
MaxBalance == 3      \* credits that would raise a balance above it are not taken
MaxOrders  == 2      \* rows of the orders table
NumTasks   == 2      \* handler tasks in flight at once
MaxTime    == 3      \* clock ticks

\* ------------------------------------------------------------------ inputs
Users      == {"u1", "u2"}
Buyers     == {"u1"}            \* the accounts that place orders
Admins     == {"admin1"}
TxIds      == {"TX1"}
Reasons    == {"bad proof"}
Amounts    == {1, 2}           \* handle_amount accepts amount > 0 only
Prices     == {-1, 1, 2}       \* catalogue prices are float(text), unvalidated
Deltas     == {-1, 1}          \* signed admin adjustments
Rates      == {1, 2}           \* execute_rate_update accepts new_rate > 0 only
Dollars    == {1}              \* amounts typed in USD
NoOne      == "none"           \* NULL in a text or id column

VARIABLES
    users,            \* users table: user_id -> [balance, status]
    transactions,     \* transactions table: tx_id -> row
    orders,           \* orders table: sequence, order_id = index (AUTOINCREMENT)
    appended,         \* the rows the latest step appended to balance_history
                      \* and to admin_logs (both tables are append only and
                      \* no handler reads them back)
    now,              \* the clock, in ticks
    task,             \* handler tasks: position and the values they hold
    orderDebit,       \* history: per order, the outcome of its purchase's debit
    orderRefunds,     \* history: per order, how many refunds were applied
    txCredits,        \* history: per tx_id, how many confirm credits were applied
    opening,          \* history: the balance each account row was written with
    applied,          \* history: per account, the sum of the deltas of the
                      \* balance writes that reported success
    returned,         \* the value the latest writing Database call returned
    USD_RATE,         \* config.USD_RATE: local currency units per dollar
    connection        \* the Database.get_connection call in progress, if any

tables == <<users, transactions, orders>>
ghost  == <<orderDebit, orderRefunds, txCredits, opening>>
vars   == <<users, transactions, orders, appended, now, task,
           orderDebit, orderRefunds, txCredits, opening, applied, returned,
           USD_RATE, connection>>

Tasks == 1..NumTasks

IdleTask == [pc |-> "idle", tx |-> NoOne, order |-> 0, user |-> NoOne,
             price |-> 0, admin |-> NoOne]

\* A step that appends nothing to the audit tables.
NoRows == [balance_history |-> <<>>, admin_logs |-> <<>>]

\* What a Database method returned: the method and its bool.
Returned(call, ok) == [call |-> call, ok |-> ok]

\* A step that calls no writing Database method.
NoCall == Returned("none", TRUE)

\* What a Database method answered: the method, the key it was asked about
\* and the value it computed.
Answered(call, key, value) ==
    [call |-> call, ok |-> TRUE, key |-> key, value |-> value]

\* No get_connection call is in progress and no connection is held.
Closed == [pc |-> "closed", i |-> 0, failed |-> 0, error |-> NoOne]

\* users.balance REAL DEFAULT 0.0, users.status DEFAULT 'active'
NewUserRow == [balance |-> 0, status |-> "active"]

Init ==
    /\ users = [u \in {} |-> NewUserRow]
    /\ transactions = [t \in {} |-> NewUserRow]
    /\ orders = <<>>
    /\ appended = NoRows
    /\ now = 0
    /\ task = [p \in Tasks |-> IdleTask]
    /\ orderDebit = <<>>
    /\ orderRefunds = <<>>
    /\ txCredits = [t \in TxIds |-> 0]
    /\ opening = [u \in Users |-> 0]
    /\ applied = [u \in Users |-> 0]
    /\ returned = NoCall
    /\ USD_RATE = 1
    /\ connection = Closed

\* ------------------------------------------------------- the storage layer
\* Each operator below is one Database method: the tables it would write and
\* the value it returns, computed from the current tables.  A method that
\* raises inside its transaction goes through ROLLBACK and leaves the tables.

\* A users table without the CHECK constraint: every balance is accepted.
Unchecked(b) == TRUE

\* users.balance ... CHECK (balance >= 0): a write that breaks it raises
\* sqlite3.IntegrityError.
BalanceCheck(b) == b >= 0

\* INSERT INTO admin_logs (admin_id, action, details, target_user_id)
LogRow(a, action, target) == [admin_id |-> a, action |-> action, target_user_id |-> target]

\* A get_user_balance that answers its fetchone() without the
\* "if result" test: no balance at all for an unknown user_id.
GetUserBalanceOfRow(u) == IF u \in DOMAIN users THEN users[u].balance ELSE -1

\* Database.get_user_balance: 0 for an unknown user_id.
GetUserBalance(u) == IF u \in DOMAIN users THEN users[u].balance ELSE 0

\* UPDATE users SET balance = balance + ? WHERE user_id = ?  (no row: no effect)
AddToBalance(u, amount) ==
    IF u \in DOMAIN users THEN [users EXCEPT ![u].balance = @ + amount] ELSE users

\* The balance the row of u would hold after AddToBalance, 0 when it has no row.
BalanceAfter(u, amount) == IF u \in DOMAIN users THEN users[u].balance + amount ELSE 0

\* An update_user_balance whose UPDATE has no balance condition:
\* WHERE user_id = ? alone, on a table without the CHECK.
UpdateUserBalanceOkUnguarded(u, amount) == u \in DOMAIN users

\* An update_user_balance whose UPDATE also asks for status = 'active':
\* the balance of a banned account is not written.
UpdateUserBalanceOkActiveOnly(u, amount) ==
    /\ u \in DOMAIN users
    /\ users[u].status = "active"
    /\ users[u].balance + amount >= 0
    /\ BalanceCheck(users[u].balance + amount)

\* Database.update_user_balance: one UPDATE guarded by
\* WHERE user_id = ? AND balance + ? >= 0; True iff a row was updated.
UpdateUserBalanceOk(u, amount) ==
    /\ u \in DOMAIN users
    /\ users[u].balance + amount >= 0
    /\ BalanceCheck(users[u].balance + amount)

\* An update_user_balance that returns True whatever cursor.rowcount is.
UpdateUserBalanceIgnoringRowcount(u, amount) ==
    [ok |-> TRUE,
     users |-> IF UpdateUserBalanceOk(u, amount) THEN AddToBalance(u, amount) ELSE users]

UpdateUserBalance(u, amount) ==
    IF UpdateUserBalanceOk(u, amount)
    THEN [ok |-> TRUE, users |-> AddToBalance(u, amount)]
    ELSE [ok |-> FALSE, users |-> users]

\* Database.create_order: INSERT ... status 'pending' RETURNING order_id.
OrderRow(u, price) == [user_id |-> u, price |-> price, status |-> "pending"]

CreateOrder(u, price) == Append(orders, OrderRow(u, price))

\* Database.create_transaction: tx_id is the PRIMARY KEY, a second INSERT of
\* the same tx_id raises and is rolled back (False).
\* original_amount, original_currency and exchange_rate are the kwargs.get
\* defaults: the amount, 'SYP' and 1.
TxRow(u, amount) ==
    [user_id |-> u, amount |-> amount, status |-> "pending",
     reject_reason |-> NoOne, admin_id |-> NoOne, created_at |-> now,
     original_amount |-> amount, original_currency |-> "SYP",
     exchange_rate |-> 1]

\* The row of a call that gives the keywords original_amount and
\* original_currency and no exchange_rate, as handle_txid does.
ForeignTxRow(u, amount, original_amount, original_currency) ==
    [TxRow(u, amount) EXCEPT !.original_amount = original_amount,
                             !.original_currency = original_currency]

\* The payment_details keyword: left out (the default {}), or the
\* context.user_data dict that handle_txid passes, which holds the Decimal
\* amounts stored by handle_amount.
NoDetails == "{}"

UserData == "context.user_data"

\* json.dumps(kwargs.get('payment_details', {})), evaluated inside the try
\* block after BEGIN TRANSACTION: a Decimal value raises TypeError.
JsonDumpsOk(details) == details # UserData

\* A create_transaction that runs INSERT OR REPLACE instead of INSERT.
CreateOrReplaceTransaction(t, u, amount, details) ==
    IF ~JsonDumpsOk(details)
    THEN [ok |-> FALSE, transactions |-> transactions]
    ELSE [ok |-> TRUE,
          transactions |-> [x \in DOMAIN transactions \cup {t} |->
                               IF x = t THEN TxRow(u, amount) ELSE transactions[x]]]

CreateTransaction(t, u, amount, details) ==
    IF ~JsonDumpsOk(details) \/ t \in DOMAIN transactions
    THEN [ok |-> FALSE, transactions |-> transactions]
    ELSE [ok |-> TRUE, transactions |-> (t :> TxRow(u, amount)) @@ transactions]

CreateForeignTransaction(t, u, amount, original_amount, original_currency, details) ==
    IF ~JsonDumpsOk(details) \/ t \in DOMAIN transactions
    THEN [ok |-> FALSE, transactions |-> transactions]
    ELSE [ok |-> TRUE,
          transactions |->
              (t :> ForeignTxRow(u, amount, original_amount, original_currency))
              @@ transactions]

\* A confirm_transaction that converts again: it credits the stored amount
\* multiplied by the exchange rate of the moment.
ConfirmTransactionAtCurrentRate(t, a) ==
    IF t \notin DOMAIN transactions
    THEN [ok |-> FALSE, users |-> users, transactions |-> transactions,
          admin_logs |-> <<>>]
    ELSE [ok |-> TRUE,
          users |-> AddToBalance(transactions[t].user_id,
                                 transactions[t].amount * USD_RATE),
          transactions |->
              [transactions EXCEPT ![t].status = "completed", ![t].admin_id = a],
          admin_logs |-> <<LogRow(a, "confirm_transaction", transactions[t].user_id)>>]

\* A confirm_transaction without its UPDATE users: the row is completed and
\* logged, no balance is written.
ConfirmTransactionWithoutCredit(t, a) ==
    IF t \notin DOMAIN transactions
    THEN [ok |-> FALSE, users |-> users, transactions |-> transactions,
          admin_logs |-> <<>>]
    ELSE [ok |-> TRUE,
          users |-> users,
          transactions |->
              [transactions EXCEPT ![t].status = "completed", ![t].admin_id = a],
          admin_logs |-> <<LogRow(a, "confirm_transaction", transactions[t].user_id)>>]

\* Database.confirm_transaction: SELECT the row (none: False), then set
\* status 'completed' and admin_id, add amount to the user's balance, log.
ConfirmTransaction(t, a) ==
    IF t \notin DOMAIN transactions
    THEN [ok |-> FALSE, users |-> users, transactions |-> transactions,
          admin_logs |-> <<>>]
    ELSE LET row == transactions[t] IN
         IF ~BalanceCheck(BalanceAfter(row.user_id, row.amount))
         THEN [ok |-> FALSE, users |-> users, transactions |-> transactions,
               admin_logs |-> <<>>]
         ELSE [ok |-> TRUE,
               users |-> AddToBalance(row.user_id, row.amount),
               transactions |->
                   [transactions EXCEPT ![t].status = "completed", ![t].admin_id = a],
               admin_logs |-> <<LogRow(a, "confirm_transaction", row.user_id)>>]

\* Database.reject_transaction: SELECT the row (none: False), then set status
\* 'rejected', reject_reason and admin_id, add amount to the user's balance
\* ("Refund user balance", database.py:719-724), log.
RejectTransaction(t, a, reason) ==
    IF t \notin DOMAIN transactions
    THEN [ok |-> FALSE, users |-> users, transactions |-> transactions,
          admin_logs |-> <<>>]
    ELSE LET row == transactions[t] IN
         IF ~BalanceCheck(BalanceAfter(row.user_id, row.amount))
         THEN [ok |-> FALSE, users |-> users, transactions |-> transactions,
               admin_logs |-> <<>>]
         ELSE [ok |-> TRUE,
               users |-> AddToBalance(row.user_id, row.amount),
               transactions |->
                   [transactions EXCEPT ![t].status = "rejected",
                                        ![t].reject_reason = reason,
                                        ![t].admin_id = a],
               admin_logs |-> <<LogRow(a, "reject_transaction", row.user_id)>>]

\* An update_order_status without its UPDATE orders: only the log row.
UpdateOrderStatusLogOnly(o, status, a) ==
    [ok |-> TRUE,
     orders |-> orders,
     admin_logs |-> <<LogRow(a, "update_order_status", NoOne)>>]

\* Database.update_order_status: UPDATE orders SET status = ? WHERE order_id = ?
\* (no status guard), then the log row (no target_user_id); always True.
UpdateOrderStatus(o, status, a) ==
    [ok |-> TRUE,
     orders |-> IF o \in DOMAIN orders THEN [orders EXCEPT ![o].status = status]
                ELSE orders,
     admin_logs |-> <<LogRow(a, "update_order_status", NoOne)>>]

\* A reject_order without its UPDATE users: the order is rejected and logged,
\* no balance is written.
RejectOrderWithoutRefund(o, a) ==
    IF o \notin DOMAIN orders
    THEN [ok |-> FALSE, users |-> users, orders |-> orders, admin_logs |-> <<>>]
    ELSE [ok |-> TRUE,
          users |-> users,
          orders |-> [orders EXCEPT ![o].status = "rejected"],
          admin_logs |-> <<LogRow(a, "reject_order", orders[o].user_id)>>]

\* Database.reject_order: SELECT the row (none: False), then set status
\* 'rejected', add price to the user's balance, log.
DbRejectOrder(o, a) ==
    IF o \notin DOMAIN orders
    THEN [ok |-> FALSE, users |-> users, orders |-> orders, admin_logs |-> <<>>]
    ELSE LET row == orders[o] IN
         IF ~BalanceCheck(BalanceAfter(row.user_id, row.price))
         THEN [ok |-> FALSE, users |-> users, orders |-> orders,
               admin_logs |-> <<>>]
         ELSE [ok |-> TRUE,
               users |-> AddToBalance(row.user_id, row.price),
               orders |-> [orders EXCEPT ![o].status = "rejected"],
               admin_logs |-> <<LogRow(a, "reject_order", row.user_id)>>]

\* A modify_user_balance whose UPDATE users is lost: the history row and the
\* log row are written and True is returned, the balance stays.
ModifyUserBalanceLosingWrite(u, amount, a) ==
    IF u \notin DOMAIN users \/ users[u].balance + amount < 0
    THEN [ok |-> FALSE, users |-> users, balance_history |-> <<>>,
          admin_logs |-> <<>>]
    ELSE [ok |-> TRUE,
          users |-> users,
          balance_history |->
              <<[user_id |-> u, old_balance |-> users[u].balance,
                 new_balance |-> users[u].balance + amount, change_amount |-> amount,
                 transaction_type |-> IF amount > 0 THEN "credit" ELSE "debit",
                 admin_id |-> a]>>,
          admin_logs |-> <<LogRow(a, "modify_balance", u)>>]

\* A history row with old_balance and new_balance exchanged.
HistoryRowExchanged(u, old, new, amount, a) ==
    [user_id |-> u, old_balance |-> new, new_balance |-> old, change_amount |-> amount,
     transaction_type |-> IF amount > 0 THEN "credit" ELSE "debit", admin_id |-> a]

\* Database.modify_user_balance: read the balance, refuse a negative result,
\* write the sum, append the history row and the log row.
HistoryRow(u, old, new, amount, a) ==
    [user_id |-> u, old_balance |-> old, new_balance |-> new, change_amount |-> amount,
     transaction_type |-> IF amount > 0 THEN "credit" ELSE "debit", admin_id |-> a]

ModifyUserBalance(u, amount, a) ==
    IF u \notin DOMAIN users \/ users[u].balance + amount < 0
       \/ ~BalanceCheck(BalanceAfter(u, amount))
    THEN [ok |-> FALSE, users |-> users, balance_history |-> <<>>,
          admin_logs |-> <<>>]
    ELSE [ok |-> TRUE,
          users |-> [users EXCEPT ![u].balance = users[u].balance + amount],
          balance_history |->
              <<HistoryRow(u, users[u].balance, users[u].balance + amount, amount, a)>>,
          admin_logs |-> <<LogRow(a, "modify_balance", u)>>]

\* A status update that also revokes the balance.
SetUserStatusRevokingBalance(u, status, action, a) ==
    IF u \notin DOMAIN users
    THEN [ok |-> FALSE, users |-> users, admin_logs |-> <<>>]
    ELSE [ok |-> TRUE,
          users |-> [users EXCEPT ![u] = [balance |-> 0, status |-> status]],
          admin_logs |-> <<LogRow(a, action, u)>>]

\* Database.ban_user / unban_user: UPDATE users SET status; the log row and
\* True only when a row was updated.
SetUserStatus(u, status, action, a) ==
    IF u \notin DOMAIN users
    THEN [ok |-> FALSE, users |-> users, admin_logs |-> <<>>]
    ELSE [ok |-> TRUE,
          users |-> [users EXCEPT ![u].status = status],
          admin_logs |-> <<LogRow(a, action, u)>>]

BanUser(u, a) == SetUserStatus(u, "banned", "ban_user", a)

UnbanUser(u, a) == SetUserStatus(u, "active", "unban_user", a)

\* Time.  created_at is CURRENT_TIMESTAMP, the text 'YYYY-MM-DD HH:MM:SS';
\* the cutoff is adapt_datetime(expiry_time), the text 'YYYY-MM-DDTHH:MM:SS'.
\* created_at < ? compares the two texts: the dates first, and on equal dates
\* ' ' sorts before 'T'.
TicksPerDay == 2

ExpiryTicks == TicksPerDay      \* timedelta(hours=24), main.py:68

DateOf(t) == t \div TicksPerDay

\* A comparison of the calendar dates alone, as date(created_at) < date(?)
\* would make it: a row of the cutoff's date is not before the cutoff.
CreatedOnEarlierDate(created_at, cutoff) == DateOf(created_at) < DateOf(cutoff)

CreatedBefore(created_at, cutoff) == DateOf(created_at) <= DateOf(cutoff)

\* Database.cleanup_expired_transactions: DELETE the pending rows whose
\* created_at sorts before the cutoff; returns the number of rows deleted.
ExpiredTxIds(cutoff) ==
    {t \in DOMAIN transactions :
        /\ transactions[t].status = "pending"
        /\ CreatedBefore(transactions[t].created_at, cutoff)}

CleanupExpiredTransactions(cutoff) ==
    [count |-> Cardinality(ExpiredTxIds(cutoff)),
     transactions |->
         [t \in DOMAIN transactions \ ExpiredTxIds(cutoff) |-> transactions[t]]]

\* ------------------------------------------------------------- handlers
Idle(p) == task[p].pc = "idle"

Finish(p) == task' = [task EXCEPT ![p] = IdleTask]

\* The model's caps: a credit is taken only while the balance stays within
\* MaxBalance.
Fits(u, amount) == BalanceAfter(u, amount) <= MaxBalance

\* The deltas applied to an account so far, after one more of them.
Credit(u, amount) == [applied EXCEPT ![u] = @ + amount]

\* What a storage call appended to the two audit tables.
Audit(history, logs) ==
    [balance_history |-> history, admin_logs |-> logs]

\* handlers.start_after_subscription:
\* INSERT OR REPLACE INTO users (user_id, username, first_name, joined_date,
\* last_activity): the row is replaced, balance and status take their defaults.
StartAfterSubscription(u) ==
    /\ users' = (u :> NewUserRow) @@ users
    /\ appended' = NoRows
    /\ UNCHANGED <<USD_RATE, connection>>
    /\ returned' = NoCall
    /\ applied' = [applied EXCEPT ![u] = 0]
    /\ opening' = [opening EXCEPT ![u] = 0]
    /\ UNCHANGED <<transactions, orders, now, task>>
    /\ UNCHANGED <<orderDebit, orderRefunds, txCredits>>

\* RechargeManager.handle_txid: the amount kept by handle_amount (> 0) and the
\* tx_id the user typed go to create_transaction, with
\* payment_details=context.user_data.
HandleTxid(u, t, amount) ==
    /\ transactions' = CreateTransaction(t, u, amount, UserData).transactions
    /\ txCredits' = IF CreateTransaction(t, u, amount, UserData).ok
                    THEN [txCredits EXCEPT ![t] = 0] ELSE txCredits
    /\ appended' = NoRows
    /\ UNCHANGED <<USD_RATE, connection>>
    /\ returned' = Returned("create_transaction",
                            CreateTransaction(t, u, amount, UserData).ok)
    /\ UNCHANGED applied
    /\ UNCHANGED <<users, orders, now, task>>
    /\ UNCHANGED <<orderDebit, orderRefunds, opening>>

\* RechargeManager.confirm_payment, first call: get_transaction and the
\* status check; the handler ends when the row is missing or not pending.
ConfirmPayment(p, t, a) ==
    /\ Idle(p)
    /\ IF t \in DOMAIN transactions /\ transactions[t].status = "pending"
       THEN task' = [task EXCEPT ![p] =
                [IdleTask EXCEPT !.pc = "confirm_transaction", !.tx = t, !.admin = a]]
       ELSE UNCHANGED task
    /\ appended' = NoRows
    /\ UNCHANGED <<USD_RATE, connection>>
    /\ returned' = NoCall
    /\ UNCHANGED applied
    /\ UNCHANGED <<tables, now>>
    /\ UNCHANGED ghost

\* RechargeManager.confirm_payment, second call: db.confirm_transaction.
ConfirmPaymentWrite(p) ==
    /\ task[p].pc = "confirm_transaction"
    /\ LET t == task[p].tx
           r == ConfirmTransaction(t, task[p].admin)
       IN /\ r.ok => Fits(transactions[t].user_id, transactions[t].amount)
          /\ users' = r.users
          /\ transactions' = r.transactions
          /\ appended' = Audit(<<>>, r.admin_logs)
          /\ UNCHANGED <<USD_RATE, connection>>
          /\ returned' = Returned("confirm_transaction", r.ok)
          /\ applied' = IF r.ok /\ transactions[t].user_id \in DOMAIN users
                     THEN Credit(transactions[t].user_id, transactions[t].amount)
                     ELSE applied
          /\ txCredits' = IF r.ok /\ transactions[t].user_id \in DOMAIN users
                          THEN [txCredits EXCEPT ![t] = @ + 1] ELSE txCredits
    /\ Finish(p)
    /\ UNCHANGED <<orders, now>>
    /\ UNCHANGED <<orderDebit, orderRefunds, opening>>

\* RechargeManager.handle_reject_reason: db.reject_transaction on the tx_id
\* kept by reject_payment, with the reason the admin typed.
HandleRejectReason(t, a, reason) ==
    /\ LET r == RejectTransaction(t, a, reason)
       IN /\ r.ok => Fits(transactions[t].user_id, transactions[t].amount)
          /\ users' = r.users
          /\ transactions' = r.transactions
          /\ appended' = Audit(<<>>, r.admin_logs)
          /\ UNCHANGED <<USD_RATE, connection>>
          /\ returned' = Returned("reject_transaction", r.ok)
          /\ applied' = IF r.ok /\ transactions[t].user_id \in DOMAIN users
                     THEN Credit(transactions[t].user_id, transactions[t].amount)
                     ELSE applied
    /\ UNCHANGED <<orders, now, task>>
    /\ UNCHANGED ghost

\* PurchaseManager._process_purchase, first call: get_user_balance and the
\* comparison with the price kept by handle_buy_game; the handler ends when
\* the balance is below the price.
ProcessPurchase(p, u, price) ==
    /\ Idle(p)
    /\ IF GetUserBalance(u) < price
       THEN UNCHANGED task
       ELSE task' = [task EXCEPT ![p] =
                [IdleTask EXCEPT !.pc = "create_order", !.user = u, !.price = price]]
    /\ appended' = NoRows
    /\ UNCHANGED <<USD_RATE, connection>>
    /\ returned' = NoCall
    /\ UNCHANGED applied
    /\ UNCHANGED <<tables, now>>
    /\ UNCHANGED ghost

\* PurchaseManager._process_purchase, second call: db.create_order.
ProcessPurchaseCreateOrder(p) ==
    /\ task[p].pc = "create_order"
    /\ Len(orders) < MaxOrders
    /\ orders' = CreateOrder(task[p].user, task[p].price)
    /\ orderDebit' = Append(orderDebit, "none")
    /\ orderRefunds' = Append(orderRefunds, 0)
    /\ task' = [task EXCEPT ![p].pc = "update_user_balance", ![p].order = Len(orders) + 1]
    /\ appended' = NoRows
    /\ UNCHANGED <<USD_RATE, connection>>
    /\ returned' = Returned("create_order", TRUE)
    /\ UNCHANGED applied
    /\ UNCHANGED <<users, transactions, now>>
    /\ UNCHANGED <<txCredits, opening>>

\* PurchaseManager._process_purchase, third call: db.update_user_balance with
\* -price; the handler reports the failure and ends, or goes on to notify.
ProcessPurchaseDebit(p) ==
    /\ task[p].pc = "update_user_balance"
    /\ LET u == task[p].user
           r == UpdateUserBalance(u, -task[p].price)
       IN /\ r.ok => Fits(u, -task[p].price)
          /\ users' = r.users
          /\ orderDebit' = [orderDebit EXCEPT ![task[p].order] =
                IF r.ok THEN "ok"
                ELSE IF u \in DOMAIN users THEN "insufficient" ELSE "norow"]
    /\ Finish(p)
    /\ appended' = NoRows
    /\ UNCHANGED <<USD_RATE, connection>>
    /\ returned' = Returned("update_user_balance", UpdateUserBalanceOk(task[p].user, -task[p].price))
    /\ applied' = IF UpdateUserBalanceOk(task[p].user, -task[p].price)
               THEN Credit(task[p].user, -task[p].price) ELSE applied
    /\ UNCHANGED <<transactions, orders, now>>
    /\ UNCHANGED <<orderRefunds, txCredits, opening>>

\* PurchaseManager.confirm_order, first call: get_order and the status check.
ConfirmOrder(p, o, a) ==
    /\ Idle(p)
    /\ IF o \in DOMAIN orders /\ orders[o].status = "pending"
       THEN task' = [task EXCEPT ![p] =
                [IdleTask EXCEPT !.pc = "update_order_status", !.order = o, !.admin = a]]
       ELSE UNCHANGED task
    /\ appended' = NoRows
    /\ UNCHANGED <<USD_RATE, connection>>
    /\ returned' = NoCall
    /\ UNCHANGED applied
    /\ UNCHANGED <<tables, now>>
    /\ UNCHANGED ghost

\* PurchaseManager.confirm_order, second call: db.update_order_status.
ConfirmOrderWrite(p) ==
    /\ task[p].pc = "update_order_status"
    /\ LET r == UpdateOrderStatus(task[p].order, "completed", task[p].admin)
       IN /\ orders' = r.orders
          /\ appended' = Audit(<<>>, r.admin_logs)
          /\ UNCHANGED <<USD_RATE, connection>>
          /\ returned' = Returned("update_order_status", r.ok)
          /\ UNCHANGED applied
    /\ Finish(p)
    /\ UNCHANGED <<users, transactions, now>>
    /\ UNCHANGED ghost

\* PurchaseManager.reject_order, first call: get_order and the status check.
RejectOrder(p, o, a) ==
    /\ Idle(p)
    /\ IF o \in DOMAIN orders /\ orders[o].status = "pending"
       THEN task' = [task EXCEPT ![p] =
                [IdleTask EXCEPT !.pc = "reject_order", !.order = o, !.admin = a]]
       ELSE UNCHANGED task
    /\ appended' = NoRows
    /\ UNCHANGED <<USD_RATE, connection>>
    /\ returned' = NoCall
    /\ UNCHANGED applied
    /\ UNCHANGED <<tables, now>>
    /\ UNCHANGED ghost

\* PurchaseManager.reject_order, second call: db.reject_order.
RejectOrderWrite(p) ==
    /\ task[p].pc = "reject_order"
    /\ LET o == task[p].order
           r == DbRejectOrder(o, task[p].admin)
       IN /\ r.ok => Fits(orders[o].user_id, orders[o].price)
          /\ users' = r.users
          /\ orders' = r.orders
          /\ appended' = Audit(<<>>, r.admin_logs)
          /\ UNCHANGED <<USD_RATE, connection>>
          /\ returned' = Returned("reject_order", r.ok)
          /\ applied' = IF r.ok /\ orders[o].user_id \in DOMAIN users
                     THEN Credit(orders[o].user_id, orders[o].price) ELSE applied
          /\ orderRefunds' = IF r.ok /\ orders[o].user_id \in DOMAIN users
                             THEN [orderRefunds EXCEPT ![o] = @ + 1] ELSE orderRefunds
    /\ Finish(p)
    /\ UNCHANGED <<transactions, now>>
    /\ UNCHANGED <<orderDebit, txCredits, opening>>

\* AdminPanel.execute_modify_balance: db.modify_user_balance with the signed
\* amount the admin typed.
ExecuteModifyBalance(u, amount, a) ==
    /\ LET r == ModifyUserBalance(u, amount, a)
       IN /\ r.ok => Fits(u, amount)
          /\ users' = r.users
          /\ appended' = Audit(r.balance_history, r.admin_logs)
          /\ UNCHANGED <<USD_RATE, connection>>
          /\ returned' = Returned("modify_user_balance", r.ok)
          /\ applied' = IF r.ok THEN Credit(u, amount) ELSE applied
    /\ UNCHANGED <<transactions, orders, now, task>>
    /\ UNCHANGED ghost

\* AdminPanel.execute_ban_user / execute_unban_user.
ExecuteBanUser(u, a) ==
    /\ users' = BanUser(u, a).users
    /\ appended' = Audit(<<>>, BanUser(u, a).admin_logs)
    /\ UNCHANGED <<USD_RATE, connection>>
    /\ returned' = Returned("ban_user", BanUser(u, a).ok)
    /\ UNCHANGED applied
    /\ UNCHANGED <<transactions, orders, now, task>>
    /\ UNCHANGED ghost

ExecuteUnbanUser(u, a) ==
    /\ users' = UnbanUser(u, a).users
    /\ appended' = Audit(<<>>, UnbanUser(u, a).admin_logs)
    /\ UNCHANGED <<USD_RATE, connection>>
    /\ returned' = Returned("unban_user", UnbanUser(u, a).ok)
    /\ UNCHANGED applied
    /\ UNCHANGED <<transactions, orders, now, task>>
    /\ UNCHANGED ghost

\* main.check_updates (job_queue.run_repeating, every 30 minutes):
\* cleanup_expired_transactions(datetime.now() - timedelta(hours=24)).
CheckUpdates ==
    /\ transactions' = CleanupExpiredTransactions(now - ExpiryTicks).transactions
    /\ appended' = NoRows
    /\ UNCHANGED <<USD_RATE, connection>>
    /\ returned' = Answered("cleanup_expired_transactions", NoOne,
                            CleanupExpiredTransactions(now - ExpiryTicks).count)
    /\ UNCHANGED applied
    /\ UNCHANGED <<users, orders, now, task>>
    /\ UNCHANGED ghost

\* Time passes.
Tick ==
    /\ now < MaxTime
    /\ now' = now + 1
    /\ appended' = NoRows
    /\ UNCHANGED <<USD_RATE, connection>>
    /\ returned' = NoCall
    /\ UNCHANGED applied
    /\ UNCHANGED <<tables, task>>
    /\ UNCHANGED ghost

\* AdminPanel.execute_rate_update with currency USD: config.update_usd_rate.
\* No table is written.
ExecuteRateUpdate(new_rate) ==
    /\ USD_RATE' = new_rate
    /\ UNCHANGED connection
    /\ appended' = NoRows
    /\ returned' = NoCall
    /\ UNCHANGED applied
    /\ UNCHANGED <<tables, now, task>>
    /\ UNCHANGED ghost

\* RechargeManager.handle_amount for a payment in USD:
\* syp_amount = amount * config.USD_RATE, kept as the amount of the request.
SypAmount(amount) == amount * USD_RATE

\* ------------------------------------------------------ storage failures
\* A sqlite3 error raised inside a Database method (no connection, a locked
\* or unwritable file): the except branch runs ROLLBACK, so the call writes
\* nothing, and the handler that awaited it ends.  create_order returns None
\* and reject_order False; update_user_balance and create_order leave their
\* except branch with AttributeError (self.logger does not exist), which
\* _process_purchase catches.  The order row written by an earlier
\* create_order of the same purchase is in its own, committed transaction.
ProcessPurchaseCreateOrderFails(p) ==
    /\ task[p].pc = "create_order"
    /\ Finish(p)
    /\ appended' = NoRows
    /\ UNCHANGED <<USD_RATE, connection>>
    /\ returned' = Returned("create_order", FALSE)
    /\ UNCHANGED applied
    /\ UNCHANGED <<tables, now>>
    /\ UNCHANGED ghost

ProcessPurchaseDebitFails(p) ==
    /\ task[p].pc = "update_user_balance"
    /\ orderDebit' = [orderDebit EXCEPT ![task[p].order] = "error"]
    /\ Finish(p)
    /\ appended' = NoRows
    /\ UNCHANGED <<USD_RATE, connection>>
    /\ returned' = Returned("update_user_balance", FALSE)
    /\ UNCHANGED applied
    /\ UNCHANGED <<tables, now>>
    /\ UNCHANGED <<orderRefunds, txCredits, opening>>

RejectOrderWriteFails(p) ==
    /\ task[p].pc = "reject_order"
    /\ Finish(p)
    /\ appended' = NoRows
    /\ UNCHANGED <<USD_RATE, connection>>
    /\ returned' = Returned("reject_order", FALSE)
    /\ UNCHANGED applied
    /\ UNCHANGED <<tables, now>>
    /\ UNCHANGED ghost

\* ----------------------------------------------------- the storage calls
\* One Database method call per step, with any arguments: what any caller, in
\* any order or interleaving, can ask of the storage layer.  The per-order
\* and per-tx_id history variables follow the handlers only; here they keep
\* their shape.
SignedAmounts == Amounts \cup {-price : price \in Prices}

CallUpdateUserBalance(u, amount) ==
    /\ LET r == UpdateUserBalance(u, amount)
       IN /\ r.ok => Fits(u, amount)
          /\ users' = r.users
    /\ appended' = NoRows
    /\ UNCHANGED <<USD_RATE, connection>>
    /\ returned' = Returned("update_user_balance", UpdateUserBalanceOk(u, amount))
    /\ applied' = IF UpdateUserBalanceOk(u, amount) THEN Credit(u, amount) ELSE applied
    /\ UNCHANGED <<transactions, orders, now, task>>
    /\ UNCHANGED ghost

CallModifyUserBalance(u, amount, a) == ExecuteModifyBalance(u, amount, a)

CallCreateTransaction(t, u, amount) ==
    /\ transactions' = CreateTransaction(t, u, amount, NoDetails).transactions
    /\ txCredits' = IF CreateTransaction(t, u, amount, NoDetails).ok
                    THEN [txCredits EXCEPT ![t] = 0] ELSE txCredits
    /\ appended' = NoRows
    /\ UNCHANGED <<USD_RATE, connection>>
    /\ returned' = Returned("create_transaction",
                            CreateTransaction(t, u, amount, NoDetails).ok)
    /\ UNCHANGED applied
    /\ UNCHANGED <<users, orders, now, task>>
    /\ UNCHANGED <<orderDebit, orderRefunds, opening>>

\* create_transaction with the arguments handle_txid gives for a request in
\* dollars (amount = syp_amount of handle_amount, original_amount,
\* original_currency), payment_details left out.
CallCreateForeignTransaction(t, u, original_amount) ==
    /\ LET r == CreateForeignTransaction(t, u, SypAmount(original_amount),
                                         original_amount, "USD", NoDetails)
       IN /\ transactions' = r.transactions
          /\ txCredits' = IF r.ok THEN [txCredits EXCEPT ![t] = 0] ELSE txCredits
          /\ returned' = Returned("create_transaction", r.ok)
    /\ appended' = NoRows
    /\ UNCHANGED <<USD_RATE, connection>>
    /\ UNCHANGED applied
    /\ UNCHANGED <<users, orders, now, task>>
    /\ UNCHANGED <<orderDebit, orderRefunds, opening>>

CallConfirmTransaction(t, a) ==
    /\ LET r == ConfirmTransaction(t, a)
       IN /\ r.ok => Fits(transactions[t].user_id, transactions[t].amount)
          /\ users' = r.users
          /\ transactions' = r.transactions
          /\ appended' = Audit(<<>>, r.admin_logs)
          /\ UNCHANGED <<USD_RATE, connection>>
          /\ returned' = Returned("confirm_transaction", r.ok)
          /\ applied' = IF r.ok /\ transactions[t].user_id \in DOMAIN users
                     THEN Credit(transactions[t].user_id, transactions[t].amount)
                     ELSE applied
    /\ UNCHANGED <<orders, now, task>>
    /\ UNCHANGED ghost

CallRejectTransaction(t, a, reason) == HandleRejectReason(t, a, reason)

CallCreateOrder(u, price) ==
    /\ Len(orders) < MaxOrders
    /\ orders' = CreateOrder(u, price)
    /\ orderDebit' = Append(orderDebit, "none")
    /\ orderRefunds' = Append(orderRefunds, 0)
    /\ appended' = NoRows
    /\ UNCHANGED <<USD_RATE, connection>>
    /\ returned' = Returned("create_order", TRUE)
    /\ UNCHANGED applied
    /\ UNCHANGED <<users, transactions, now, task>>
    /\ UNCHANGED <<txCredits, opening>>

CallUpdateOrderStatus(o, status, a) ==
    /\ LET r == UpdateOrderStatus(o, status, a)
       IN /\ orders' = r.orders
          /\ appended' = Audit(<<>>, r.admin_logs)
          /\ UNCHANGED <<USD_RATE, connection>>
          /\ returned' = Returned("update_order_status", r.ok)
          /\ UNCHANGED applied
    /\ UNCHANGED <<users, transactions, now, task>>
    /\ UNCHANGED ghost

CallRejectOrder(o, a) ==
    /\ LET r == DbRejectOrder(o, a)
       IN /\ r.ok => Fits(orders[o].user_id, orders[o].price)
          /\ users' = r.users
          /\ orders' = r.orders
          /\ appended' = Audit(<<>>, r.admin_logs)
          /\ UNCHANGED <<USD_RATE, connection>>
          /\ returned' = Returned("reject_order", r.ok)
          /\ applied' = IF r.ok /\ orders[o].user_id \in DOMAIN users
                     THEN Credit(orders[o].user_id, orders[o].price) ELSE applied
    /\ UNCHANGED <<transactions, now, task>>
    /\ UNCHANGED ghost

\* ------------------------------------------------------- the read queries
\* The Database methods that run SELECT statements only.  Each one is a step
\* that leaves in returned the value it computed for the key it was asked
\* about.

\* A connection that ran a DELETE for every SELECT: the table is left empty.
SelectsAsDeletes(table) == [x \in {} |-> table[x]]

\* What a connection that executed only SELECT statements leaves of a table.
AfterSelects(table) == table

\* COALESCE(SUM(f[x]), 0) over the rows S.
RECURSIVE SumOver(_, _)
SumOver(f, S) ==
    IF S = {} THEN 0
    ELSE LET x == CHOOSE y \in S : TRUE IN f[x] + SumOver(f, S \ {x})

\* A sum without the CASE WHEN status = 'completed' filter: rows of every
\* status count.
EveryStatus(table, column) == [x \in DOMAIN table |-> table[x][column]]

\* SUM(CASE WHEN status = 'completed' THEN column ELSE 0 END) of a table.
CompletedOnly(table, column) ==
    [x \in DOMAIN table |->
        IF table[x].status = "completed" THEN table[x][column] ELSE 0]

\* The rows of a table WHERE user_id = u.
RowsOf(table, u) == {x \in DOMAIN table : table[x].user_id = u}

\* Database.get_user_stats: None for a user_id without a row, else the row's
\* balance and status with the counts and completed sums of its transactions
\* (every row is written with type 'deposit') and of its orders.
GetUserStats(u) ==
    IF u \notin DOMAIN users THEN NoOne
    ELSE [current_balance |-> users[u].balance,
          is_banned |-> users[u].status = "banned",
          total_transactions |-> Cardinality(RowsOf(transactions, u)),
          total_deposits |->
              SumOver(CompletedOnly(transactions, "amount"), RowsOf(transactions, u)),
          total_orders |-> Cardinality(RowsOf(orders, u)),
          total_spent |->
              SumOver(CompletedOnly(orders, "price"), RowsOf(orders, u))]

\* Database.get_user_orders: the order rows of u (as order_ids; rows created
\* within one second have no defined ORDER BY created_at position).
GetUserOrders(u) == RowsOf(orders, u)

\* Database.get_total_transaction_volume: SUM(amount) WHERE status = 'completed'.
GetTotalTransactionVolume ==
    SumOver(CompletedOnly(transactions, "amount"), DOMAIN transactions)

\* Database.get_active_users_last_24h counts the rows with status 'active'
\* whose last_activity is less than a day old.  last_activity is not kept
\* here: the count is any number up to the active rows.
ActiveUsers == {u \in DOMAIN users : users[u].status = "active"}

\* A read step: nothing but returned changes.
Read(answer) ==
    /\ users' = AfterSelects(users)
    /\ transactions' = AfterSelects(transactions)
    /\ orders' = AfterSelects(orders)
    /\ appended' = NoRows
    /\ UNCHANGED <<USD_RATE, connection>>
    /\ returned' = answer
    /\ UNCHANGED applied
    /\ UNCHANGED <<now, task>>
    /\ UNCHANGED ghost

CallGetUserBalance(u) == Read(Answered("get_user_balance", u, GetUserBalance(u)))

CallGetUserStats(u) == Read(Answered("get_user_stats", u, GetUserStats(u)))

CallGetUserOrders(u) == Read(Answered("get_user_orders", u, GetUserOrders(u)))

CallGetTotalTransactionVolume ==
    Read(Answered("get_total_transaction_volume", NoOne, GetTotalTransactionVolume))

CallGetActiveUsersLast24h ==
    \E count \in 0..Cardinality(ActiveUsers) :
        Read(Answered("get_active_users_last_24h", NoOne, count))

\* ---------------------------------------------------------- get_connection
\* Database.get_connection: for i in range(5), connect and set the PRAGMAs;
\* return the connection of the attempt that raised nothing; an
\* sqlite3.OperationalError is raised again "if i == 4" and is followed by
\* time.sleep(1) and the next attempt otherwise; an exception of any other
\* class is not caught.  connection.i is the loop variable, connection.failed
\* counts the attempts that raised.
Attempts == 5

LastAttempt == 4

\* What sqlite3.connect and the two PRAGMA statements can raise: the class the
\* except clause names (unable to open the file, database is locked) and the
\* sibling class it does not name (file is not a database).
Errors == {"OperationalError", "DatabaseError"}

\* A get_connection without the "if i == 4" branch: every OperationalError is
\* followed by the sleep.
NeverLastAttempt(i) == FALSE

IsLastAttempt(i) == i = LastAttempt

\* A step of get_connection: the tables and the histories stay as they are.
ConnectionStep ==
    /\ appended' = NoRows
    /\ UNCHANGED USD_RATE
    /\ returned' = NoCall
    /\ UNCHANGED applied
    /\ UNCHANGED <<tables, now, task>>
    /\ UNCHANGED ghost

\* A Database method calls self.get_connection().
GetConnection ==
    /\ connection.pc = "closed"
    /\ connection' = [Closed EXCEPT !.pc = "connecting"]
    /\ ConnectionStep

\* The attempt raises nothing: return conn.
Connect ==
    /\ connection.pc = "connecting"
    /\ connection' = [connection EXCEPT !.pc = "open"]
    /\ ConnectionStep

\* The attempt raises error.
ConnectFails(error) ==
    /\ connection.pc = "connecting"
    /\ connection' =
          [connection EXCEPT
              !.pc = IF error = "OperationalError" /\ ~IsLastAttempt(connection.i)
                     THEN "sleeping" ELSE "raised",
              !.failed = @ + 1,
              !.error = error]
    /\ ConnectionStep

\* time.sleep(1) returns and the loop goes on; a loop that is exhausted ends
\* the function, which then returns None.
Sleep ==
    /\ connection.pc = "sleeping"
    /\ connection' =
          IF connection.i + 1 < Attempts
          THEN [connection EXCEPT !.pc = "connecting", !.i = @ + 1]
          ELSE [connection EXCEPT !.pc = "None"]
    /\ ConnectionStep

\* update_user_balance on the connection it was given: the UPDATE, COMMIT or
\* ROLLBACK, conn.close().
UpdateUserBalanceConnected(u, amount) ==
    /\ connection.pc = "open"
    /\ connection' = Closed
    /\ LET r == UpdateUserBalance(u, amount)
       IN /\ r.ok => Fits(u, amount)
          /\ users' = r.users
    /\ appended' = NoRows
    /\ UNCHANGED USD_RATE
    /\ returned' = Returned("update_user_balance", UpdateUserBalanceOk(u, amount))
    /\ applied' = IF UpdateUserBalanceOk(u, amount) THEN Credit(u, amount) ELSE applied
    /\ UNCHANGED <<transactions, orders, now, task>>
    /\ UNCHANGED ghost

\* update_user_balance without a connection: get_connection raised (or gave
\* None), the except branch of the method is taken and nothing is written.
UpdateUserBalanceUnconnected ==
    /\ connection.pc \in {"raised", "None"}
    /\ connection' = Closed
    /\ appended' = NoRows
    /\ UNCHANGED USD_RATE
    /\ returned' = Returned("update_user_balance", FALSE)
    /\ UNCHANGED applied
    /\ UNCHANGED <<tables, now, task>>
    /\ UNCHANGED ghost

\* --------------------------------------------------------- specifications
\* The events of each handler group, for the accounts U that take part.
AccountEvents(U) ==
    \/ \E u \in U : StartAfterSubscription(u)

RechargeEvents(U) ==
    \/ \E u \in U, t \in TxIds, amount \in Amounts : HandleTxid(u, t, amount)
    \/ \E p \in Tasks, t \in TxIds, a \in Admins : ConfirmPayment(p, t, a)
    \/ \E p \in Tasks : ConfirmPaymentWrite(p)
    \/ \E t \in TxIds, a \in Admins, reason \in Reasons : HandleRejectReason(t, a, reason)

PurchaseEvents(U) ==
    \/ \E p \in Tasks, u \in U, price \in Prices : ProcessPurchase(p, u, price)
    \/ \E p \in Tasks : ProcessPurchaseCreateOrder(p)
    \/ \E p \in Tasks : ProcessPurchaseDebit(p)

OrderEvents ==
    \/ \E p \in Tasks, o \in 1..MaxOrders, a \in Admins : ConfirmOrder(p, o, a)
    \/ \E p \in Tasks : ConfirmOrderWrite(p)
    \/ \E p \in Tasks, o \in 1..MaxOrders, a \in Admins : RejectOrder(p, o, a)
    \/ \E p \in Tasks : RejectOrderWrite(p)

AdjustEvents(U) ==
    \/ \E u \in U, amount \in Deltas, a \in Admins : ExecuteModifyBalance(u, amount, a)

BanEvents(U) ==
    \/ \E u \in U, a \in Admins : ExecuteBanUser(u, a)
    \/ \E u \in U, a \in Admins : ExecuteUnbanUser(u, a)

SweepEvents ==
    \/ CheckUpdates
    \/ Tick

\* The ledger: every storage call that writes a balance, a transaction or an
\* order, in any order.  Every interleaving of the handlers is one of these
\* sequences.  No storage call touches the balance of more than one account,
\* so the calls are made for the buyers' accounts.
NextLedger ==
    \/ AccountEvents(Buyers)
    \/ \E u \in Buyers, amount \in SignedAmounts : CallUpdateUserBalance(u, amount)
    \/ \E u \in Buyers, amount \in Deltas, a \in Admins : CallModifyUserBalance(u, amount, a)
    \/ \E u \in Buyers, t \in TxIds, amount \in Amounts : CallCreateTransaction(t, u, amount)
    \/ \E t \in TxIds, a \in Admins : CallConfirmTransaction(t, a)
    \/ \E t \in TxIds, a \in Admins, reason \in Reasons : CallRejectTransaction(t, a, reason)
    \/ \E u \in Buyers, price \in Prices : CallCreateOrder(u, price)
    \/ \E o \in 1..MaxOrders, a \in Admins : CallUpdateOrderStatus(o, "completed", a)
    \/ \E o \in 1..MaxOrders, a \in Admins : CallRejectOrder(o, a)

SpecLedger == Init /\ [][NextLedger]_vars

\* The life of a top-up transaction: created, confirmed, rejected, swept.
\* handle_txid's own create_transaction call is refused (JsonDumpsOk), so the
\* pending rows come from create_transaction called without payment_details.
NextRecharge ==
    \/ AccountEvents(Users)
    \/ \E u \in Users, t \in TxIds, amount \in Amounts : CallCreateTransaction(t, u, amount)
    \/ RechargeEvents(Users)
    \/ SweepEvents

SpecRecharge == Init /\ [][NextRecharge]_vars

\* The life of an order: placed, confirmed, rejected; the buyer is funded by
\* admin adjustments.
NextOrders ==
    \/ AccountEvents(Buyers)
    \/ AdjustEvents(Buyers)
    \/ PurchaseEvents(Buyers)
    \/ OrderEvents

SpecOrders == Init /\ [][NextOrders]_vars

\* Debits alone: the buyers' accounts exist with an opening balance and are
\* written by purchases only.
InitDebit ==
    /\ \E b \in [Buyers -> 0..MaxBalance] :
          /\ users = [u \in Buyers |-> [balance |-> b[u], status |-> "active"]]
          /\ opening = [u \in Users |-> IF u \in Buyers THEN b[u] ELSE 0]
    /\ transactions = [t \in {} |-> NewUserRow]
    /\ orders = <<>>
    /\ appended = NoRows
    /\ now = 0
    /\ task = [p \in Tasks |-> IdleTask]
    /\ orderDebit = <<>>
    /\ orderRefunds = <<>>
    /\ txCredits = [t \in TxIds |-> 0]
    /\ applied = [u \in Users |-> 0]
    /\ returned = NoCall
    /\ USD_RATE = 1
    /\ connection = Closed

NextDebit ==
    \/ PurchaseEvents(Buyers)

SpecDebit == InitDebit /\ [][NextDebit]_vars

\* Orders on funded accounts: placed at a positive price, debited, rejected;
\* nothing else writes the balance.
Charges == {price \in Prices : price > 0}

NextRefund ==
    \/ \E p \in Tasks, u \in Buyers, price \in Charges : ProcessPurchase(p, u, price)
    \/ \E p \in Tasks : ProcessPurchaseCreateOrder(p)
    \/ \E p \in Tasks : ProcessPurchaseDebit(p)
    \/ \E p \in Tasks, o \in 1..MaxOrders, a \in Admins : RejectOrder(p, o, a)
    \/ \E p \in Tasks : RejectOrderWrite(p)

SpecRefund == InitDebit /\ [][NextRefund]_vars

\* Orders on funded accounts: placed, debited, confirmed.
NextConfirm ==
    \/ PurchaseEvents(Buyers)
    \/ \E p \in Tasks, o \in 1..MaxOrders, a \in Admins : ConfirmOrder(p, o, a)
    \/ \E p \in Tasks : ConfirmOrderWrite(p)

SpecConfirm == InitDebit /\ [][NextConfirm]_vars

\* The transactions table alone: rows created for any user, confirmed,
\* rejected and swept by the storage calls.
NextDeposits ==
    \/ AccountEvents(Users)
    \/ \E u \in Users, t \in TxIds, amount \in Amounts : CallCreateTransaction(t, u, amount)
    \/ \E t \in TxIds, a \in Admins : CallConfirmTransaction(t, a)
    \/ \E t \in TxIds, a \in Admins, reason \in Reasons : CallRejectTransaction(t, a, reason)
    \/ SweepEvents

SpecDeposits == Init /\ [][NextDeposits]_vars

\* Purchases and rejects on funded accounts, where any storage call of a
\* handler may meet a storage failure.
NextFaults ==
    \/ \E p \in Tasks, u \in Buyers, price \in Charges : ProcessPurchase(p, u, price)
    \/ \E p \in Tasks : ProcessPurchaseCreateOrder(p)
    \/ \E p \in Tasks : ProcessPurchaseCreateOrderFails(p)
    \/ \E p \in Tasks : ProcessPurchaseDebit(p)
    \/ \E p \in Tasks : ProcessPurchaseDebitFails(p)
    \/ \E p \in Tasks, o \in 1..MaxOrders, a \in Admins : RejectOrder(p, o, a)
    \/ \E p \in Tasks : RejectOrderWrite(p)
    \/ \E p \in Tasks : RejectOrderWriteFails(p)

SpecFaults == InitDebit /\ [][NextFaults]_vars

\* Top-ups paid in USD while the admin edits the exchange rate: the amount
\* converted by handle_amount goes to create_transaction, the row is confirmed
\* by confirm_payment.
NextRates ==
    \/ AccountEvents(Buyers)
    \/ \E new_rate \in Rates : ExecuteRateUpdate(new_rate)
    \/ \E u \in Buyers, t \in TxIds, amount \in Dollars :
          CallCreateTransaction(t, u, SypAmount(amount))
    \/ \E p \in Tasks, t \in TxIds, a \in Admins : ConfirmPayment(p, t, a)
    \/ \E p \in Tasks : ConfirmPaymentWrite(p)

SpecRates == Init /\ [][NextRates]_vars

\* Bans and unbans of accounts that hold balances, transactions and orders.
NextBans ==
    \/ AccountEvents(Users)
    \/ BanEvents(Users)
    \/ AdjustEvents(Buyers)
    \/ \E u \in Buyers, t \in TxIds, amount \in Amounts : CallCreateTransaction(t, u, amount)
    \/ \E u \in Buyers, price \in Charges : CallCreateOrder(u, price)

SpecBans == Init /\ [][NextBans]_vars

\* The read queries among the writes whose results they report: accounts are
\* opened, adjusted and banned, deposits are created and confirmed, orders
\* are placed and completed.
NextReads ==
    \/ AccountEvents(Users)
    \/ AdjustEvents(Buyers)
    \/ \E u \in Buyers, a \in Admins : ExecuteBanUser(u, a)
    \/ \E u \in Buyers, t \in TxIds, amount \in Amounts : CallCreateTransaction(t, u, amount)
    \/ \E t \in TxIds, a \in Admins : CallConfirmTransaction(t, a)
    \/ \E u \in Buyers, price \in Charges : CallCreateOrder(u, price)
    \/ \E o \in 1..MaxOrders, a \in Admins : CallUpdateOrderStatus(o, "completed", a)
    \/ \E u \in Users : CallGetUserBalance(u)
    \/ \E u \in Users : CallGetUserStats(u)
    \/ \E u \in Users : CallGetUserOrders(u)
    \/ CallGetTotalTransactionVolume
    \/ CallGetActiveUsersLast24h

SpecReads == Init /\ [][NextReads]_vars

\* Credits by update_user_balance to accounts of any balance and status, and
\* to user_ids without an account; balances are lowered by the admin's
\* adjustment.
NextCredits ==
    \/ AccountEvents(Users)
    \/ BanEvents(Buyers)
    \/ AdjustEvents(Buyers)
    \/ \E u \in Users, amount \in Amounts : CallUpdateUserBalance(u, amount)

SpecCredits == Init /\ [][NextCredits]_vars

\* get_connection under its caller: update_user_balance asks for a connection,
\* each attempt succeeds or raises, and the method runs on the connection it
\* gets.  sqlite3.connect and the PRAGMAs give up after their timeout and
\* time.sleep(1) returns, so an attempt or a sleep that has begun ends (weak
\* fairness on both).
Attempt == Connect \/ \E error \in Errors : ConnectFails(error)

NextConnect ==
    \/ GetConnection
    \/ Connect
    \/ \E error \in Errors : ConnectFails(error)
    \/ Sleep
    \/ \E u \in Buyers, amount \in SignedAmounts : UpdateUserBalanceConnected(u, amount)
    \/ UpdateUserBalanceUnconnected

SpecConnect ==
    /\ InitDebit
    /\ [][NextConnect]_vars
    /\ WF_vars(Attempt)
    /\ WF_vars(Sleep)

\* Requests in dollars while the admin changes the rate: the request is
\* stored by create_transaction and confirmed or rejected by the admin.
NextTopUps ==
    \/ AccountEvents(Buyers)
    \/ \E new_rate \in Rates : ExecuteRateUpdate(new_rate)
    \/ \E u \in Buyers, t \in TxIds, amount \in Dollars :
          CallCreateForeignTransaction(t, u, amount)
    \/ \E t \in TxIds, a \in Admins : CallConfirmTransaction(t, a)
    \/ \E t \in TxIds, a \in Admins, reason \in Reasons : CallRejectTransaction(t, a, reason)
    \/ SweepEvents

SpecTopUps == Init /\ [][NextTopUps]_vars

\* The periodic job: job_queue.run_repeating(check_updates, interval 30
\* minutes) keeps running and the clock keeps advancing (weak fairness on
\* both).  Requests are stored early enough for the model's clock to reach
\* their expiry; the admin may confirm or reject them at any moment.
NextSweep ==
    \/ AccountEvents(Buyers)
    \/ \E u \in Buyers, t \in TxIds, amount \in Amounts :
          /\ now + ExpiryTicks < MaxTime
          /\ CallCreateTransaction(t, u, amount)
    \/ \E t \in TxIds, a \in Admins : CallConfirmTransaction(t, a)
    \/ \E t \in TxIds, a \in Admins, reason \in Reasons : CallRejectTransaction(t, a, reason)
    \/ CheckUpdates
    \/ Tick

SpecSweep ==
    /\ Init
    /\ [][NextSweep]_vars
    /\ WF_vars(CheckUpdates)
    /\ WF_vars(Tick)

\* The statistics queries over deposits and orders of every status: requests
\* are stored, confirmed and rejected, orders are placed, completed and
\* rejected, and the statistics are read in between.
NextStats ==
    \/ AccountEvents(Buyers)
    \/ \E u \in Users, t \in TxIds, amount \in Amounts : CallCreateTransaction(t, u, amount)
    \/ \E t \in TxIds, a \in Admins : CallConfirmTransaction(t, a)
    \/ \E t \in TxIds, a \in Admins, reason \in Reasons : CallRejectTransaction(t, a, reason)
    \/ \E u \in Buyers, price \in Charges : CallCreateOrder(u, price)
    \/ \E o \in 1..MaxOrders, a \in Admins : CallUpdateOrderStatus(o, "completed", a)
    \/ \E o \in 1..MaxOrders, a \in Admins : CallRejectOrder(o, a)
    \/ \E u \in Users : CallGetUserStats(u)
    \/ CallGetTotalTransactionVolume

SpecStats == Init /\ [][NextStats]_vars

\* Everything.
Next ==
    \/ AccountEvents(Users)
    \/ \E u \in Users, t \in TxIds, amount \in Amounts : CallCreateTransaction(t, u, amount)
    \/ RechargeEvents(Users)
    \/ PurchaseEvents(Users)
    \/ OrderEvents
    \/ AdjustEvents(Users)
    \/ BanEvents(Users)
    \/ SweepEvents
    \/ \E new_rate \in Rates : ExecuteRateUpdate(new_rate)

Spec == Init /\ [][Next]_vars

\* ================================================================ claims
\* The order ids whose purchase has issued its debit, for account u.
DebitsOf(u) ==
    {o \in DOMAIN orders : orders[o].user_id = u /\ orderDebit[o] # "none"}

\* No handler task is working on order o.
Settled(o) == \A p \in Tasks : task[p].order # o

\* C1: whatever storage calls ran, in whatever order, no account holds a
\* negative balance.
BalanceNeverNegative == \A u \in DOMAIN users : users[u].balance >= 0

\* C1, its case: an account credited by a confirmed transaction is back at
\* balance 0 after debits, and one of its orders was rejected.
LedgerExercised ==
    \E u \in DOMAIN users, t \in DOMAIN transactions, o \in DOMAIN orders :
        /\ users[u].balance = 0
        /\ transactions[t].user_id = u /\ transactions[t].status = "completed"
        /\ orders[o].user_id = u /\ orders[o].status = "rejected"

\* C2: when every purchase task has ended and all the debits issued against an
\* account asked for the same amount a, with a <= opening balance < 2a, exactly
\* one of them succeeded and the balance is the opening balance minus a.
ExactlyOneDebitWins ==
    \A u \in Buyers, a \in Prices :
        ( /\ \A p \in Tasks : Idle(p)
          /\ DebitsOf(u) # {}
          /\ \A o \in DebitsOf(u) : orders[o].price = a
          /\ a <= opening[u] /\ opening[u] < 2 * a )
        => /\ Cardinality({o \in DebitsOf(u) : orderDebit[o] = "ok"}) = 1
           /\ users[u].balance = opening[u] - a

\* C2, its case: two debits of the same amount raced for funds that cover one
\* of them; one was applied and one was refused.
TwoDebitsRaced ==
    \E u \in Buyers, o1, o2 \in DOMAIN orders :
        /\ \A p \in Tasks : Idle(p)
        /\ o1 # o2
        /\ orders[o1].user_id = u /\ orders[o2].user_id = u
        /\ orders[o1].price = orders[o2].price
        /\ orders[o1].price <= opening[u] /\ opening[u] < 2 * orders[o1].price
        /\ orderDebit[o1] = "ok" /\ orderDebit[o2] = "insufficient"

RejectLeavesBalances ==
    [][\A t \in DOMAIN transactions :
          ( /\ t \in DOMAIN transactions'
            /\ transactions[t].status = "pending"
            /\ transactions'[t].status = "rejected" )
          => users' = users]_vars

TerminalTransactionsAreFrozen ==
    [][\A t \in DOMAIN transactions :
          transactions[t].status # "pending"
          => /\ t \in DOMAIN transactions'
             /\ transactions'[t].status = transactions[t].status
             /\ transactions'[t].reject_reason = transactions[t].reject_reason
             /\ transactions'[t].admin_id = transactions[t].admin_id]_vars

EveryBalanceChangeHasHistory ==
    [][\A u \in DOMAIN users \cap DOMAIN users' :
          users'[u].balance # users[u].balance =>
             /\ Len(appended'.balance_history) = 1
             /\ appended'.balance_history[1].user_id = u
             /\ appended'.balance_history[1].change_amount =
                   users'[u].balance - users[u].balance]_vars

\* C12: a first-interaction event by a user who already has an account
\* leaves the balance of that account as it was and keeps the row.
StartKeepsBalance ==
    [][\A u \in DOMAIN users :
          StartAfterSubscription(u) =>
             /\ u \in DOMAIN users'
             /\ users'[u].balance = users[u].balance]_vars

\* C13: when confirm_transaction runs on a pending transaction whose owner has
\* an account, that one step adds the stored amount to the owner's balance,
\* sets the status to completed and the admin_id to the confirming admin, and
\* changes no other account.
ConfirmCreditsOwner ==
    [][\A p \in Tasks :
          (/\ ConfirmPaymentWrite(p)
           /\ task[p].tx \in DOMAIN transactions
           /\ transactions[task[p].tx].status = "pending"
           /\ transactions[task[p].tx].user_id \in DOMAIN users)
          => LET t == task[p].tx
                 row == transactions[t]
             IN /\ returned' = Returned("confirm_transaction", TRUE)
                /\ users' = [users EXCEPT ![row.user_id].balance = @ + row.amount]
                /\ transactions' = [transactions EXCEPT
                                       ![t].status = "completed",
                                       ![t].admin_id = task[p].admin]]_vars

\* A confirm has just credited one of two accounts.
ConfirmCredited ==
    /\ returned = Returned("confirm_transaction", TRUE)
    /\ DOMAIN users = Users
    /\ \E t \in DOMAIN transactions :
          /\ transactions[t].status = "completed"
          /\ transactions[t].admin_id \in Admins
          /\ txCredits[t] = 1
          /\ users[transactions[t].user_id].balance = transactions[t].amount
          /\ \A u \in Users \ {transactions[t].user_id} : users[u].balance = 0

\* C14: a transaction is completed only with its credit applied: every
\* completed transaction has had its amount added to an account row by a
\* confirm, and a confirm that updates no account row returns False.
CompletedMeansCredited ==
    /\ \A t \in DOMAIN transactions :
          transactions[t].status = "completed" => txCredits[t] >= 1
    /\ returned = Returned("confirm_transaction", TRUE) =>
          \E t \in DOMAIN transactions : txCredits[t] >= 1

\* C15: with one order on the account and nothing else written to it, the
\* balance is the opening balance less the price once the order is placed and
\* debited, and the opening balance again once that order is rejected and
\* refunded.
PlaceThenRejectRestores ==
    \A o \in DOMAIN orders :
       (Len(orders) = 1 /\ orderDebit[o] = "ok" /\ Settled(o)) =>
          LET u == orders[o].user_id IN
          /\ (orders[o].status = "pending" /\ orderRefunds[o] = 0) =>
                users[u].balance = opening[u] - orders[o].price
          /\ orderRefunds[o] = 1 =>
                /\ orders[o].status = "rejected"
                /\ users[u].balance = opening[u]

\* An order with a positive price was debited and has just been rejected.
PlacedAndRejected ==
    /\ Len(orders) = 1
    /\ orders[1].price > 0
    /\ orders[1].status = "rejected"
    /\ orderDebit[1] = "ok"
    /\ orderRefunds[1] = 1
    /\ returned = Returned("reject_order", TRUE)
    /\ users[orders[1].user_id].balance >= orders[1].price

\* C16: when confirm_order's update_order_status runs on a pending order, that
\* step sets the order's status to completed and writes no account.
ConfirmOrderCompletes ==
    [][\A p \in Tasks :
          (/\ ConfirmOrderWrite(p)
           /\ task[p].order \in DOMAIN orders
           /\ orders[task[p].order].status = "pending")
          => /\ orders' = [orders EXCEPT ![task[p].order].status = "completed"]
             /\ users' = users
             /\ UNCHANGED <<USD_RATE, connection>>
             /\ returned' = Returned("update_order_status", TRUE)]_vars

\* A paid order has just been confirmed, the buyer's balance still debited.
OrderConfirmed ==
    /\ returned = Returned("update_order_status", TRUE)
    /\ \E o \in DOMAIN orders :
          /\ orders[o].status = "completed"
          /\ orders[o].price > 0
          /\ orderDebit[o] = "ok"
          /\ orderRefunds[o] = 0

\* C17: update_user_balance with a negative amount on an existing account
\* returns False and leaves every balance when the debit exceeds the balance,
\* and otherwise returns True and lowers that balance by exactly the debit.
DebitIsExact ==
    [][\A u \in DOMAIN users, amount \in SignedAmounts :
          (amount < 0 /\ CallUpdateUserBalance(u, amount)) =>
             IF -amount > users[u].balance
             THEN /\ returned' = Returned("update_user_balance", FALSE)
                  /\ users' = users
             ELSE /\ returned' = Returned("update_user_balance", TRUE)
                  /\ users' = [users EXCEPT ![u].balance = @ + amount]]_vars

\* A debit has just been refused on an account that holds a balance.
DebitRefused ==
    /\ returned = Returned("update_user_balance", FALSE)
    /\ \E u \in DOMAIN users : users[u].balance > 0

\* C18: whatever the order of the adjusts, debits, credits, confirm credits
\* and refunds on an account, its balance is the balance its row was written
\* with plus the sum of the deltas of the calls that returned True.
NoLostUpdate ==
    \A u \in DOMAIN users : users[u].balance = opening[u] + applied[u]

\* An account written by an adjust, a confirm credit and a refund.
LedgerMixed ==
    /\ returned = Returned("modify_user_balance", TRUE)
    /\ \E t \in DOMAIN transactions :
          /\ transactions[t].status = "completed"
          /\ transactions[t].user_id \in DOMAIN users
          /\ applied[transactions[t].user_id] >= 2
    /\ \E o \in DOMAIN orders :
          /\ orders[o].status = "rejected"
          /\ orders[o].user_id \in DOMAIN users

\* C19: modify_user_balance with delta d on an existing account of balance b
\* returns True exactly when b + d >= 0; then the balance is b + d and the step
\* appends one balance_history row (old b, new b + d, change d) and one
\* admin_logs row; otherwise balances, history and log stay as they were.
AdjustIsExact ==
    [][\A u \in DOMAIN users, d \in Deltas, a \in Admins :
          ExecuteModifyBalance(u, d, a) =>
             LET b == users[u].balance IN
             IF b + d >= 0
             THEN /\ returned' = Returned("modify_user_balance", TRUE)
                  /\ users' = [users EXCEPT ![u].balance = b + d]
                  /\ Len(appended'.balance_history) = 1
                  /\ appended'.balance_history[1].user_id = u
                  /\ appended'.balance_history[1].old_balance = b
                  /\ appended'.balance_history[1].new_balance = b + d
                  /\ appended'.balance_history[1].change_amount = d
                  /\ appended'.admin_logs = <<LogRow(a, "modify_balance", u)>>
             ELSE /\ returned' = Returned("modify_user_balance", FALSE)
                  /\ users' = users
                  /\ appended' = NoRows]_vars

\* An adjust has just lowered a balance and left its history row.
AdjustedDown ==
    /\ returned = Returned("modify_user_balance", TRUE)
    /\ Len(appended.balance_history) = 1
    /\ appended.balance_history[1].change_amount < 0
    /\ appended.balance_history[1].new_balance > 0

\* C20: create_transaction with a tx_id that already has a row returns False
\* and leaves the transactions table, and so the owner, amount and status of
\* the existing row, as it was.
DuplicateTxIdRefused ==
    [][\A t \in DOMAIN transactions, u \in Users, amount \in Amounts :
          CallCreateTransaction(t, u, amount) =>
             /\ UNCHANGED <<USD_RATE, connection>>
             /\ returned' = Returned("create_transaction", FALSE)
             /\ transactions' = transactions]_vars

\* A create_transaction has just been refused for the tx_id of a completed
\* transaction.
DuplicateRefused ==
    /\ returned = Returned("create_transaction", FALSE)
    /\ \E t \in DOMAIN transactions : transactions[t].status = "completed"

\* C21: the sweep keeps every transaction row: a pending row older than the
\* cutoff is still in the table after the sweep, with status expired, and no
\* balance is written.
SweepExpiresPending ==
    [][CheckUpdates =>
          /\ users' = users
          /\ \A t \in ExpiredTxIds(now - ExpiryTicks) :
                /\ t \in DOMAIN transactions'
                /\ transactions'[t].status = "expired"]_vars

\* C22: a purchase whose debit met a storage failure leaves the tables as
\* they were before the purchase began: no order row remains from it.
FailedPlacementLeavesNothing ==
    \A o \in DOMAIN orders : orderDebit[o] # "error"

\* C23: the amount of a transaction row never changes while the row exists, a
\* change of the exchange rate writes no table, and a confirm of a pending
\* transaction of an existing account credits exactly the stored amount.
SettlementAmountIsFixed ==
    [][/\ \A t \in DOMAIN transactions \cap DOMAIN transactions' :
             transactions'[t].amount = transactions[t].amount
       /\ USD_RATE' # USD_RATE => tables' = tables
       /\ \A p \in Tasks :
             (/\ ConfirmPaymentWrite(p)
              /\ task[p].tx \in DOMAIN transactions
              /\ transactions[task[p].tx].status = "pending"
              /\ transactions[task[p].tx].user_id \in DOMAIN users)
             => LET row == transactions[task[p].tx] IN
                users'[row.user_id].balance =
                    users[row.user_id].balance + row.amount]_vars

\* A transaction of 1 dollar created at rate 1 has just been confirmed at
\* rate 2: the account holds 1.
ConfirmedAfterRateChange ==
    /\ USD_RATE = 2
    /\ returned = Returned("confirm_transaction", TRUE)
    /\ \E t \in DOMAIN transactions :
          /\ transactions[t].status = "completed"
          /\ transactions[t].amount = 1
          /\ transactions[t].user_id \in DOMAIN users
          /\ users[transactions[t].user_id].balance = 1

UnknownIdsAppendNoLog ==
    [][/\ Len(appended'.admin_logs) <= 1
       /\ \A a \in Admins :
             /\ \A o \in 1..MaxOrders \ DOMAIN orders :
                   (CallUpdateOrderStatus(o, "completed", a) \/ CallRejectOrder(o, a))
                   => appended'.admin_logs = <<>>
             /\ \A t \in TxIds \ DOMAIN transactions :
                   CallConfirmTransaction(t, a) => appended'.admin_logs = <<>>
             /\ \A u \in Users \ DOMAIN users, d \in Deltas :
                   CallModifyUserBalance(u, d, a) => appended'.admin_logs = <<>>]_vars

\* C26: confirm_transaction, reject_transaction, update_order_status and
\* reject_order called with an id that matches no record return False and
\* leave every table as it was.
UnknownIdsReportFailure ==
    [][\A a \in Admins :
          /\ \A o \in 1..MaxOrders \ DOMAIN orders :
                (CallUpdateOrderStatus(o, "completed", a) \/ CallRejectOrder(o, a))
                => (~returned'.ok /\ tables' = tables)
          /\ \A t \in TxIds \ DOMAIN transactions, reason \in Reasons :
                (CallConfirmTransaction(t, a) \/ CallRejectTransaction(t, a, reason))
                => (~returned'.ok /\ tables' = tables)]_vars

\* C27: get_user_balance answers 0 for a user_id that has no account and the
\* stored balance of the account otherwise, and the call leaves every account,
\* transaction and order as it was and appends no history or log row.
GetBalanceIsPureRead ==
    [][returned'.call = "get_user_balance" =>
          /\ returned'.key \notin DOMAIN users => returned'.value = 0
          /\ returned'.key \in DOMAIN users =>
                returned'.value = users[returned'.key].balance
          /\ tables' = tables
          /\ appended' = NoRows]_vars

\* The balance of a user_id that has no account was read while another
\* account held a balance.
UnknownBalanceRead ==
    /\ returned.call = "get_user_balance"
    /\ returned.key \notin DOMAIN users
    /\ \E u \in DOMAIN users : users[u].balance > 0

\* C30: get_user_stats, get_user_orders, get_total_transaction_volume and
\* get_active_users_last_24h change no account, transaction or order and
\* append no balance-history or admin-log row.
ReadQueries ==
    {"get_user_stats", "get_user_orders", "get_total_transaction_volume",
     "get_active_users_last_24h"}

ReadQueriesChangeNothing ==
    [][returned'.call \in ReadQueries =>
          /\ users' = users
          /\ transactions' = transactions
          /\ orders' = orders
          /\ appended' = NoRows]_vars

\* The statistics of an account that holds a completed deposit and a completed
\* order were read.
StatsReadOverRecords ==
    /\ returned.call = "get_user_stats"
    /\ returned.key \in DOMAIN users
    /\ returned.value.total_deposits > 0
    /\ returned.value.total_spent > 0

\* C28: update_user_balance with a positive amount for an existing account
\* reports success and adds exactly that amount to the account's balance,
\* whatever the balance and the status of the account, and writes nothing else.
CreditNeverRefused ==
    \A u \in DOMAIN users, amount \in Amounts :
        /\ UpdateUserBalance(u, amount).ok
        /\ UpdateUserBalance(u, amount).users =
               [users EXCEPT ![u].balance = @ + amount]

\* A banned account that holds a balance has just been credited.
BannedAccountCredited ==
    /\ returned = Returned("update_user_balance", TRUE)
    /\ \A u \in Buyers :
          /\ u \in DOMAIN users
          /\ users[u].status = "banned"
          /\ users[u].balance > 1
    /\ DOMAIN users = Buyers

\* C29: get_connection always terminates; it makes at most 5 attempts, returns
\* the connection of the first attempt that succeeds, raises the
\* OperationalError of an attempt only when that attempt is the fifth one to
\* fail, and never returns without a connection or an error.  An error of
\* another class is raised by the attempt it occurs in.
ConnectionOutcome ==
    /\ connection.i < Attempts
    /\ connection.failed <= Attempts
    /\ connection.pc # "None"
    /\ connection.pc = "open" => connection.failed = connection.i
    /\ connection.pc = "raised" /\ connection.error = "OperationalError" =>
          connection.failed = Attempts
    /\ connection.pc = "raised" /\ connection.error # "OperationalError" =>
          connection.failed = connection.i + 1

GetConnectionIsBoundedRetry ==
    /\ []ConnectionOutcome
    /\ (connection.pc = "connecting") ~> (connection.pc \in {"open", "raised"})

\* Five attempts failed with OperationalError and the fifth one was raised.
RaisedAfterFifthFailure ==
    /\ connection.pc = "raised"
    /\ connection.error = "OperationalError"
    /\ connection.failed = Attempts

\* C29 as stated: an error reaches the caller only after the fifth
\* consecutive failed attempt.
ErrorOnlyAfterFifthFailure ==
    connection.pc = "raised" => connection.failed = Attempts

\* C31: the sweep with cutoff T removes or alters no pending transaction
\* created after T (a tick is half a day: a creation tick greater than the
\* cutoff tick is a later instant) and no transaction that is not pending.
SweepSparesRecentAndSettled ==
    [][CheckUpdates =>
          \A t \in DOMAIN transactions :
              (\/ transactions[t].status # "pending"
               \/ transactions[t].created_at > now - ExpiryTicks)
              => /\ t \in DOMAIN transactions'
                 /\ transactions'[t] = transactions[t]]_vars

\* C32: for every account, balance = the amounts of its completed
\* transactions - the prices of its pending and completed orders (+ the
\* admin's adjustments, of which the recharge handlers make none).
LedgerConservation ==
    \A u \in DOMAIN users :
        LET charged == [o \in DOMAIN orders |->
                           IF orders[o].status \in {"pending", "completed"}
                           THEN orders[o].price ELSE 0]
        IN users[u].balance =
               SumOver(CompletedOnly(transactions, "amount"), RowsOf(transactions, u))
               - SumOver(charged, RowsOf(orders, u))

\* C36: a top-up request with a positive amount and a tx_id not yet stored
\* (handle_amount, then handle_txid) leaves a transaction of that tx_id in
\* status pending with a positive amount and changes no balance.
TopUpCreatesPending ==
    [][\A u \in Users, t \in TxIds, amount \in Amounts :
          (HandleTxid(u, t, amount) /\ t \notin DOMAIN transactions)
          => /\ t \in DOMAIN transactions'
             /\ transactions'[t].status = "pending"
             /\ transactions'[t].amount > 0
             /\ users' = users]_vars

StatusChangesOnlyByBan ==
    [][\A u \in DOMAIN users :
          (u \in DOMAIN users' /\ users'[u].status # users[u].status)
          => returned'.call \in {"ban_user", "unban_user"}]_vars

\* C35: while the periodic job keeps running, every pending transaction
\* eventually stops being pending, and a sweep that finds a pending
\* transaction older than the threshold takes it out of the pending set.
Pending(t) ==
    /\ t \in DOMAIN transactions
    /\ transactions[t].status = "pending"

CompletedOf(table, u) ==
    {x \in DOMAIN table : table[x].user_id = u /\ table[x].status = "completed"}

StatsCountCompletedOnly ==
    /\ (returned.call = "get_user_stats" /\ returned.key \in DOMAIN users) =>
          /\ returned.value.total_deposits =
                SumOver([t \in DOMAIN transactions |-> transactions[t].amount],
                        CompletedOf(transactions, returned.key))
          /\ returned.value.total_spent =
                SumOver([o \in DOMAIN orders |-> orders[o].price],
                        CompletedOf(orders, returned.key))
    /\ returned.call = "get_total_transaction_volume" =>
          returned.value =
              SumOver([t \in DOMAIN transactions |-> transactions[t].amount],
                      {t \in DOMAIN transactions :
                          transactions[t].status = "completed"})

\* The statistics of an account with a completed deposit, a completed order
\* and an order that is not completed were read.
StatsReadAmongOtherStatuses ==
    /\ returned.call = "get_user_stats"
    /\ returned.key \in DOMAIN users
    /\ returned.value.total_deposits > 0
    /\ returned.value.total_spent > 0
    /\ \E o \in DOMAIN orders :
          /\ orders[o].user_id = returned.key
          /\ orders[o].status # "completed"

============================================================================
